---------------------------- MODULE Spec2Model ----------------------------
(***************************************************************************)
(* A model of datumaro's TF Detection API converter                        *)
(* (datumaro/plugins/tf_detection_api_format/converter.py).                *)
(*                                                                         *)
(* Representation:                                                         *)
(*   - an optional value (Python None / a value) is a sequence of length   *)
(*     0 or 1: None is << >>, the value v is <<v>>;                        *)
(*   - a str or bytes value is the sequence of its character codes;        *)
(*   - an annotation object is referred to by its position in the item's   *)
(*     annotation list, so that "the same annotation" is object identity;  *)
(*   - a float produced by a true division n / d is the pair <<n, d>>;     *)
(*   - a tf.train.Feature is [kind |-> ..., value |-> list].               *)
(***************************************************************************)
EXTENDS Integers, Sequences, FiniteSets, TLC

VARIABLES
    save_images,   \* self._save_images
    save_masks,    \* self._save_masks
    extractor,     \* the dataset handed to __call__: categories, subsets, items
    pc,            \* position of __call__: ready / subset / items / done / error
    label_ids,     \* OrderedDict name -> 1 + idx, as a list of <<name, id>>
    subsets,       \* the list iterated by "for subset_name in subsets"
    subset_idx,    \* position of that loop (1-based)
    subset_name,   \* name of the subset being written
    subset,        \* the items iterated by "for item in subset"
    item_idx,      \* position of that loop (1-based)
    files,         \* save_dir: file name -> content written so far
    error,         \* the exception that left __call__, None if none
    ann_groups,    \* _make_tf_example's local: result of _find_instances
    instances      \* _make_tf_example's local: list of [leader, mask, bbox]

vars == <<save_images, save_masks, extractor, pc, label_ids, subsets,
          subset_idx, subset_name, subset, item_idx, files, error,
          ann_groups, instances>>

----------------------------------------------------------------------------
(* Bounds of the checked instances *)

MaxAnns == 3
MaxBoxAnns == 2
MaxItems == 2
MaxLabel == 2

----------------------------------------------------------------------------
(* Python values *)

None == << >>

Some(v) == <<v>>

\* Python truthiness of a group id: None and 0 are falsy
GroupTruthy(g_id) == g_id # None /\ g_id[1] # 0

\* Python truthiness of a subset name: None and '' are falsy
NameTruthy(name) == name # None /\ name[1] # ""

\* true division n / d, kept exact
Div(n, d) == <<n, d>>

\* a / b <= c / d for positive denominators
FracLeq(p, q) == p[1] * q[2] <= q[1] * p[2]

RECURSIVE SeqMin(_, _)
\* min(iterable, default=default)
SeqMin(s, default) ==
    IF s = << >> THEN default
    ELSE IF Len(s) = 1 THEN s[1]
    ELSE LET m == SeqMin(Tail(s), default)
         IN IF m < s[1] THEN m ELSE s[1]

RECURSIVE SeqMax(_, _)
\* max(iterable, default=default)
SeqMax(s, default) ==
    IF s = << >> THEN default
    ELSE IF Len(s) = 1 THEN s[1]
    ELSE LET m == SeqMax(Tail(s), default)
         IN IF m > s[1] THEN m ELSE s[1]

RECURSIVE Filter(_, _)
\* the positions i of s, in order, with keep[i]
Filter(n, keep) ==
    IF n = 0 THEN << >>
    ELSE Filter(n - 1, keep) \o (IF keep[n] THEN <<n>> ELSE << >>)

----------------------------------------------------------------------------
(* Collaborators the converter calls *)

\* string.printable: digits, letters, punctuation (33..126), space, \t\n\r\x0b\x0c
Printable == (32..126) \cup (9..13)

\* DetectionApiPath.IMAGE_EXT = '.jpg'
IMAGE_EXT == <<46, 106, 112, 103>>

\* DetectionApiPath.IMAGE_FORMAT = 'jpeg'
IMAGE_FORMAT == <<106, 112, 101, 103>>

LABELMAP_FILE == "label_map.pbtxt"

DEFAULT_SUBSET_NAME == "default"

\* encode_image(data, ext): an opaque non-empty buffer determined by data and ext
encode_image(data, ext) == ext \o data

\* the raster of mask annotation i
MaskImage(i) == <<i>>

RECURSIVE Concat(_)
Concat(ss) == IF ss = << >> THEN << >> ELSE Head(ss) \o Concat(Tail(ss))

\* merge_masks(masks): None for no mask, else the masks overlaid in list order
merge_masks(masks) == IF masks = << >> THEN None ELSE Some(Concat(masks))

----------------------------------------------------------------------------
(* Feature constructors *)

int64_feature(value) == [kind |-> "int64", value |-> <<value>>]

int64_list_feature(value) == [kind |-> "int64", value |-> value]

bytes_feature(value) == [kind |-> "bytes", value |-> <<value>>]

bytes_list_feature(value) == [kind |-> "bytes", value |-> value]

float_list_feature(value) == [kind |-> "float", value |-> value]

\* dict.update: the entries of new replace those of old
Update(old, new) == new @@ old

EmptyDict == [k \in {} |-> 0]

----------------------------------------------------------------------------
(* Label catalog *)

\* _make_printable: the characters of s that are in string.printable
make_printable(s) == SelectSeq(s, LAMBDA c : c \in Printable)

\* Python list indexing items[i] is defined for -len <= i < len
IndexInRange(items, i) == -Len(items) <= i /\ i < Len(items)

\* items[i] for an index in range (negative indices count from the end)
PyIndex(items, i) == IF i >= 0 THEN items[i + 1] ELSE items[Len(items) + i + 1]

\* get_label raises IndexError exactly when the label id is not None and
\* is out of the catalog's range
get_label_raises(label_categories, label_id) ==
    label_id # None /\ ~IndexInRange(label_categories, label_id[1])

\* get_label = lambda label_id: label_categories.items[label_id].name
\*     if label_id is not None else ''
get_label(label_categories, label_id) ==
    IF label_id # None THEN PyIndex(label_categories, label_id[1]) ELSE << >>

RECURSIVE DictSet(_, _, _)
\* d[key] = value on an ordered dict: an existing key keeps its place
DictSet(d, key, value) ==
    IF d = << >> THEN << <<key, value>> >>
    ELSE IF Head(d)[1] = key THEN << <<key, value>> >> \o Tail(d)
    ELSE <<Head(d)>> \o DictSet(Tail(d), key, value)

RECURSIVE DictGet(_, _, _)
\* d.get(key, default)
DictGet(d, key, default) ==
    IF d = << >> THEN default
    ELSE IF Head(d)[1] = key THEN Head(d)[2]
    ELSE DictGet(Tail(d), key, default)

RECURSIVE MakeLabelIds(_, _)
\* OrderedDict((label.name, 1 + idx) for idx, label in enumerate(items)),
\* n entries inserted
MakeLabelIds(items, n) ==
    IF n = 0 THEN << >>
    ELSE DictSet(MakeLabelIds(items, n - 1), items[n], 1 + (n - 1))

\* map_label_id = lambda label_id: label_ids.get(get_label(label_id), 0)
map_label_id(label_categories, ids, label_id) ==
    DictGet(ids, get_label(label_categories, label_id), 0)

----------------------------------------------------------------------------
(* Instance grouping.  An annotation is                                    *)
(*   [type, group, label, area, bbox]                                      *)
(* with type "bbox", "mask" or another kind, group and label optional      *)
(* ints, area the value of get_area() and bbox the value of get_bbox(),    *)
(* <<x, y, w, h>>.                                                         *)

BBOX == "bbox"

MASK == "mask"

\* _find_instance_anns: the bbox and mask annotations, in order
find_instance_anns(annotations) ==
    Filter(Len(annotations),
           [i \in 1..Len(annotations) |-> annotations[i].type \in {BBOX, MASK}])

RECURSIVE groupby(_, _)
\* itertools.groupby(anns, lambda a: a.group): the maximal runs of
\* consecutive elements with equal key, as <<key, run>>
groupby(annotations, anns) ==
    IF anns = << >> THEN << >>
    ELSE LET rest == groupby(annotations, Tail(anns))
             key  == annotations[Head(anns)].group
         IN IF rest # << >> /\ rest[1][1] = key
            THEN << <<key, <<Head(anns)>> \o rest[1][2]>> >> \o Tail(rest)
            ELSE << <<key, <<Head(anns)>> >> >> \o rest

RECURSIVE CollectGroups(_)
\* the loop of _find_instances over the runs: a run with a falsy key is
\* extended as one list per annotation, any other run is appended whole
CollectGroups(runs) ==
    IF runs = << >> THEN << >>
    ELSE LET g_id  == Head(runs)[1]
             group == Head(runs)[2]
         IN (IF ~GroupTruthy(g_id)
             THEN [k \in 1..Len(group) |-> <<group[k]>>]
             ELSE <<group>>) \o CollectGroups(Tail(runs))

\* find_instances without the split of falsy-key runs: every run is appended
\* whole
find_instances_whole_runs(annotations) ==
    LET runs == groupby(annotations, find_instance_anns(annotations))
    IN [k \in 1..Len(runs) |-> runs[k][2]]

\* _find_instances
find_instances(annotations) ==
    CollectGroups(groupby(annotations, find_instance_anns(annotations)))

\* find_group_leader keeping the last element of largest area (>= for >)
find_group_leader_last(annotations, group) ==
    LET best[n \in 1..Len(group)] ==
            IF n = 1 THEN group[1]
            ELSE IF annotations[group[n]].area >= annotations[best[n - 1]].area
                 THEN group[n] ELSE best[n - 1]
    IN best[Len(group)]

\* find_group_leader: max(group, key=get_area) returns the first element
\* of largest area (max of an empty list raises; groups are never empty)
find_group_leader(annotations, group) ==
    LET best[n \in 1..Len(group)] ==
            IF n = 1 THEN group[1]
            ELSE IF annotations[group[n]].area > annotations[best[n - 1]].area
                 THEN group[n] ELSE best[n - 1]
    IN best[Len(group)]

\* _compute_bbox returning the corners <<x0, y0, x1, y1>>
compute_bbox_corners(annotations, anns) ==
    LET boxes == [k \in 1..Len(anns) |-> annotations[anns[k]].bbox]
        x0 == SeqMin([k \in 1..Len(boxes) |-> boxes[k][1]], 0)
        y0 == SeqMin([k \in 1..Len(boxes) |-> boxes[k][2]], 0)
        x1 == SeqMax([k \in 1..Len(boxes) |-> boxes[k][1] + boxes[k][3]], 0)
        y1 == SeqMax([k \in 1..Len(boxes) |-> boxes[k][2] + boxes[k][4]], 0)
    IN <<x0, y0, x1, y1>>

\* _compute_bbox
compute_bbox(annotations, anns) ==
    LET boxes == [k \in 1..Len(anns) |-> annotations[anns[k]].bbox]
        x0 == SeqMin([k \in 1..Len(boxes) |-> boxes[k][1]], 0)
        y0 == SeqMin([k \in 1..Len(boxes) |-> boxes[k][2]], 0)
        x1 == SeqMax([k \in 1..Len(boxes) |-> boxes[k][1] + boxes[k][3]], 0)
        y1 == SeqMax([k \in 1..Len(boxes) |-> boxes[k][2] + boxes[k][4]], 0)
    IN <<x0, y0, x1 - x0, y1 - y0>>

\* _find_instance_parts: <<leader, mask, bbox>>
find_instance_parts(annotations, group, masks_enabled) ==
    LET boxes  == SelectSeq(group, LAMBDA a : annotations[a].type = BBOX)
        masks  == SelectSeq(group, LAMBDA a : annotations[a].type = MASK)
        anns   == boxes \o masks
        leader == find_group_leader(annotations, anns)
        bbox   == compute_bbox(annotations, anns)
        mask   == IF masks_enabled
                  THEN merge_masks([k \in 1..Len(masks) |-> MaskImage(masks[k])])
                  ELSE None
    IN <<leader, mask, bbox>>

\* instances = [self._find_instance_parts(i, width, height) for i in instances]
all_instance_parts(annotations, groups, masks_enabled) ==
    [k \in 1..Len(groups) |->
        find_instance_parts(annotations, groups[k], masks_enabled)]

----------------------------------------------------------------------------
(* Feature encoding *)

\* encode_image(mask, '.png')
PNG_EXT == <<46, 112, 110, 103>>

\* normalize_box dividing x by the height and y by the width
normalize_box_swapped(box, width, height) ==
    <<Div(box[1], height), Div(box[1] + box[3], height),
      Div(box[2], width), Div(box[2] + box[4], width)>>

\* lines 163-166: <<xmin, xmax, ymin, ymax>> of one instance box
normalize_box(box, width, height) ==
    <<Div(box[1], width), Div(box[1] + box[3], width),
      Div(box[2], height), Div(box[2] + box[4], height)>>

\* mask_buffers appending a buffer only for the instances that have a mask
mask_buffers_skip_none(insts, masks_enabled) ==
    IF masks_enabled
    THEN LET with_mask == SelectSeq([k \in 1..Len(insts) |-> insts[k][2]],
                                    LAMBDA m : m # None)
         IN [k \in 1..Len(with_mask) |-> encode_image(with_mask[k][1], PNG_EXT)]
    ELSE << >>

\* lines 168-173: the masks list, one buffer per instance when masks are saved
mask_buffers(insts, masks_enabled) ==
    IF masks_enabled
    THEN [k \in 1..Len(insts) |->
            IF insts[k][2] # None THEN encode_image(insts[k][2][1], PNG_EXT)
            ELSE << >>]
    ELSE << >>

\* assemble_result without the "if classes" test
assemble_result_always(xmins, xmaxs, ymins, ymaxs, classes_text, classes, masks) ==
    LET boxes == ("image/object/bbox/xmin" :> float_list_feature(xmins))
              @@ ("image/object/bbox/xmax" :> float_list_feature(xmaxs))
              @@ ("image/object/bbox/ymin" :> float_list_feature(ymins))
              @@ ("image/object/bbox/ymax" :> float_list_feature(ymaxs))
              @@ ("image/object/class/text" :> bytes_list_feature(classes_text))
              @@ ("image/object/class/label" :> int64_list_feature(classes))
    IN IF masks # << >>
       THEN Update(boxes, "image/object/mask" :> bytes_list_feature(masks))
       ELSE boxes

\* lines 175-187: the result dict
assemble_result(xmins, xmaxs, ymins, ymaxs, classes_text, classes, masks) ==
    LET boxes == ("image/object/bbox/xmin" :> float_list_feature(xmins))
              @@ ("image/object/bbox/xmax" :> float_list_feature(xmaxs))
              @@ ("image/object/bbox/ymin" :> float_list_feature(ymins))
              @@ ("image/object/bbox/ymax" :> float_list_feature(ymaxs))
              @@ ("image/object/class/text" :> bytes_list_feature(classes_text))
              @@ ("image/object/class/label" :> int64_list_feature(classes))
    IN IF classes # << >>
       THEN IF masks # << >>
            THEN Update(boxes, "image/object/mask" :> bytes_list_feature(masks))
            ELSE boxes
       ELSE EmptyDict

\* _export_instances: [raised |-> is an IndexError raised, result |-> dict]
export_instances(annotations, label_categories, ids, insts, width, height, masks_enabled) ==
    LET n       == Len(insts)
        lead(k) == annotations[insts[k][1]].label
        classes_text == [k \in 1..n |->
            make_printable(get_label(label_categories, lead(k)))]
        classes == [k \in 1..n |-> map_label_id(label_categories, ids, lead(k))]
        coords == [k \in 1..n |-> normalize_box(insts[k][3], width, height)]
        xmins == [k \in 1..n |-> coords[k][1]]
        xmaxs == [k \in 1..n |-> coords[k][2]]
        ymins == [k \in 1..n |-> coords[k][3]]
        ymaxs == [k \in 1..n |-> coords[k][4]]
        masks == mask_buffers(insts, masks_enabled)
    IN IF \E k \in 1..n : get_label_raises(label_categories, lead(k))
       THEN [raised |-> TRUE, result |-> EmptyDict]
       ELSE [raised |-> FALSE,
             result |-> assemble_result(xmins, xmaxs, ymins, ymaxs,
                                        classes_text, classes, masks)]

\* the missing-image error without the item's id in it
NoImageInfo_anonymous(item) == [type |-> "Exception", item |-> << >>]

\* The exceptions that leave _make_tf_example
NoImageInfo(item) == [type |-> "Exception", item |-> item.id]

IndexError == [type |-> "IndexError", item |-> << >>]

\* _make_tf_example:
\*   [raised |-> None or the exception, features |-> the Example's features,
\*    ann_groups, instances |-> the locals computed on the way]
make_tf_example(item, label_categories, ids, images_enabled, masks_enabled) ==
    LET features0 ==
               ("image/source_id" :> bytes_feature(item.id))
            @@ ("image/filename" :> bytes_feature(item.id \o IMAGE_EXT))
        height == item.height
        width  == item.width
        features1 == Update(features0,
               ("image/height" :> int64_feature(height))
            @@ ("image/width" :> int64_feature(width)))
        features2 == Update(features1,
               ("image/encoded" :> bytes_feature(<< >>))
            @@ ("image/format" :> bytes_feature(<< >>)))
        features3 ==
            IF images_enabled /\ item.has_image /\ item.has_data
            THEN Update(features2,
                   ("image/encoded" :>
                        bytes_feature(encode_image(item.data, IMAGE_EXT)))
                @@ ("image/format" :> bytes_feature(IMAGE_FORMAT)))
            ELSE features2
        groups   == find_instances(item.annotations)
        insts    == all_instance_parts(item.annotations, groups, masks_enabled)
        exported == export_instances(item.annotations, label_categories, ids,
                                     insts, width, height, masks_enabled)
    IN IF ~item.has_image
       THEN [raised |-> Some(NoImageInfo(item)), features |-> EmptyDict,
             ann_groups |-> << >>, instances |-> << >>]
       ELSE IF exported.raised
       THEN [raised |-> Some(IndexError), features |-> EmptyDict,
             ann_groups |-> groups, instances |-> insts]
       ELSE [raised |-> None, features |-> Update(features3, exported.result),
             ann_groups |-> groups, instances |-> insts]

----------------------------------------------------------------------------
(* The conversion run, __call__ *)

\* extractor.get_subset(name): the items of that subset, in order
get_subset(ex, name) == SelectSeq(ex.items, LAMBDA it : it.subset = Some(name))

\* the label map written to LABELMAP_FILE: one entry per label_ids item
LabelMapText(ids) == [k \in 1..Len(ids) |-> [id |-> ids[k][2], name |-> ids[k][1]]]

\* osp.join(save_dir, '%s.tfrecord' % (subset_name))
AnnoPath(name) == name \o ".tfrecord"

\* lines 64-78: the label catalog and the list of subsets
Call ==
    /\ pc = "ready"
    /\ label_ids' = MakeLabelIds(extractor.categories, Len(extractor.categories))
    /\ subsets' = IF Len(extractor.subsets) = 0 THEN <<None>>
                  ELSE extractor.subsets
    /\ subset_idx' = 1
    /\ pc' = "subset"
    /\ UNCHANGED <<save_images, save_masks, extractor, subset_name, subset,
                   item_idx, files, error, ann_groups, instances>>

\* lines 80-98: pick the next subset, write the label map, open the writer
BeginSubset ==
    /\ pc = "subset"
    /\ subset_idx <= Len(subsets)
    /\ LET name == IF NameTruthy(subsets[subset_idx])
                   THEN subsets[subset_idx][1] ELSE DEFAULT_SUBSET_NAME
       IN /\ subset_name' = name
          /\ subset' = IF NameTruthy(subsets[subset_idx])
                       THEN get_subset(extractor, subsets[subset_idx][1])
                       ELSE extractor.items
          /\ files' = (AnnoPath(name) :> << >>)
                      @@ (LABELMAP_FILE :> LabelMapText(label_ids))
                      @@ files
    /\ item_idx' = 1
    /\ pc' = "items"
    /\ UNCHANGED <<save_images, save_masks, extractor, label_ids, subsets,
                   subset_idx, error, ann_groups, instances>>

\* the value of self._make_tf_example(item) for the item the loop is at
Example == make_tf_example(subset[item_idx], extractor.categories, label_ids,
                           save_images, save_masks)

\* lines 99-101, _make_tf_example returns: the record is written
WriteItem ==
    /\ pc = "items"
    /\ item_idx <= Len(subset)
    /\ Example.raised = None
    /\ files' = [files EXCEPT ![AnnoPath(subset_name)] =
                    Append(@, Example.features)]
    /\ ann_groups' = Example.ann_groups
    /\ instances' = Example.instances
    /\ item_idx' = item_idx + 1
    /\ UNCHANGED <<save_images, save_masks, extractor, pc, label_ids, subsets,
                   subset_idx, subset_name, subset, error>>

\* lines 99-100, _make_tf_example raises: the exception leaves __call__
\* (the with statement closes the writer on the way out)
RaiseItem ==
    /\ pc = "items"
    /\ item_idx <= Len(subset)
    /\ Example.raised # None
    /\ error' = Example.raised
    /\ ann_groups' = Example.ann_groups
    /\ instances' = Example.instances
    /\ pc' = "error"
    /\ UNCHANGED <<save_images, save_masks, extractor, label_ids, subsets,
                   subset_idx, subset_name, subset, item_idx, files>>

\* the item loop is exhausted: the writer is closed, on to the next subset
EndSubset ==
    /\ pc = "items"
    /\ item_idx > Len(subset)
    /\ subset_idx' = subset_idx + 1
    /\ pc' = "subset"
    /\ UNCHANGED <<save_images, save_masks, extractor, label_ids, subsets,
                   subset_name, subset, item_idx, files, error, ann_groups,
                   instances>>

\* the subset loop is exhausted: __call__ returns
Return ==
    /\ pc = "subset"
    /\ subset_idx > Len(subsets)
    /\ pc' = "done"
    /\ UNCHANGED <<save_images, save_masks, extractor, label_ids, subsets,
                   subset_idx, subset_name, subset, item_idx, files, error,
                   ann_groups, instances>>

Next == Call \/ BeginSubset \/ WriteItem \/ RaiseItem \/ EndSubset \/ Return

----------------------------------------------------------------------------
(* Inputs: the converter's settings and the dataset it is called on *)

SeqsUpTo(S, n) == UNION {[1..k -> S] : k \in 0..n}

Ann(type, group, label, area, bbox) ==
    [type |-> type, group |-> group, label |-> label, area |-> area,
     bbox |-> bbox]

\* an item with image info of the given size and no pixel data
SizedItem(height, width, annotations) ==
    [id |-> <<49>>, subset |-> None, has_image |-> TRUE, height |-> height,
     width |-> width, has_data |-> FALSE, data |-> << >>,
     annotations |-> annotations]

RECURSIVE SubsetsOf(_)
\* extractor.subsets(): the subset names of the items, each once
SubsetsOf(items) ==
    IF items = << >> THEN << >>
    ELSE LET rest == SubsetsOf(Tail(items))
             name == Head(items).subset
         IN <<name>> \o SelectSeq(rest, LAMBDA n : n # name)

Dataset(categories, items) ==
    [categories |-> categories, subsets |-> SubsetsOf(items), items |-> items]

NameA == <<97>>

\* "café": its last character is not printable ASCII
NameCafe == <<99, 97, 102, 233>>

Catalogs == {<< >>, <<NameA>>, <<NameA, NameCafe>>}

UnitBox == <<0, 0, 1, 1>>

\* the state __call__ is entered in
Start(images_enabled, masks_enabled, categories, items) ==
    /\ save_images = images_enabled
    /\ save_masks = masks_enabled
    /\ extractor = Dataset(categories, items)
    /\ pc = "ready"
    /\ label_ids = << >>
    /\ subsets = << >>
    /\ subset_idx = 0
    /\ subset_name = ""
    /\ subset = << >>
    /\ item_idx = 0
    /\ files = EmptyDict
    /\ error = None
    /\ ann_groups = << >>
    /\ instances = << >>

\* grouping: one item, annotations of any kind and group id
GroupAnns ==
    {Ann(t, g, None, 1, UnitBox) :
        t \in {BBOX, MASK, "polygon"}, g \in {None, Some(0), Some(1), Some(2)}}

InitGroup ==
    \E anns \in SeqsUpTo(GroupAnns, MaxAnns) :
        Start(FALSE, FALSE, << >>, <<SizedItem(2, 2, anns)>>)

\* leaders and masks: a group of boxes, masks and other kinds of several
\* areas, next to ungrouped annotations
LeaderAnns ==
    {Ann(t, Some(1), None, a, UnitBox) :
        t \in {BBOX, MASK, "polygon"}, a \in 1..2}
    \cup {Ann(t, None, None, 1, UnitBox) : t \in {BBOX, MASK, "polygon"}}

InitLeader ==
    \E m \in BOOLEAN, anns \in SeqsUpTo(LeaderAnns, MaxAnns) :
        Start(FALSE, m, << >>, <<SizedItem(2, 2, anns)>>)

\* geometry: one group of boxes and masks, any rectangle, several image sizes
Rects == {<<x, y, w, 1>> : x \in 0..1, y \in 0..1, w \in 0..1}

BoxAnns == {Ann(t, Some(1), None, 1, r) : t \in {BBOX, MASK}, r \in Rects}

ImageSizes == {<<1, 2>>, <<2, 1>>, <<2, 2>>}

InitBox ==
    \E sz \in ImageSizes, anns \in SeqsUpTo(BoxAnns, MaxBoxAnns) \ {<< >>} :
        Start(FALSE, FALSE, << >>, <<SizedItem(sz[1], sz[2], anns)>>)

\* labels: a box and a mask of one group, any label reference, any catalog
Labels == {None} \cup {Some(l) : l \in (-MaxLabel)..MaxLabel}

LabelAnns ==
    {Ann(t, Some(1), l, a, UnitBox) :
        t \in {BBOX, MASK}, l \in Labels, a \in 1..2}

InitLabel ==
    \E c \in Catalogs,
       anns \in {<<a>> : a \in {x \in LabelAnns : x.label # None}} \cup
                {<<a, b>> : a \in {x \in LabelAnns : x.type = MASK /\ x.area = 1},
                            b \in {x \in LabelAnns : x.type = BBOX
                                                     /\ x.label # None}} :
        Start(FALSE, FALSE, c, <<SizedItem(2, 2, anns)>>)

\* the run: several items in several subsets, with and without image info
\* and pixel data, with labels inside and outside the catalog
RunItemKinds ==
    {[subset |-> s, has_image |-> img[1], has_data |-> img[2],
      annotations |-> anns] :
        s \in {None, Some("train")},
        img \in {<<FALSE, FALSE>>, <<TRUE, FALSE>>, <<TRUE, TRUE>>},
        anns \in {<< >>,
                  <<Ann(BBOX, None, Some(0), 1, UnitBox)>>,
                  <<Ann(BBOX, None, Some(MaxLabel), 1, UnitBox)>>}}

\* item k of the dataset: ids '1', '2', ...
RunItem(k, kind) ==
    [id |-> <<48 + k>>, subset |-> kind.subset, has_image |-> kind.has_image,
     height |-> IF kind.has_image THEN 2 ELSE 0,
     width |-> IF kind.has_image THEN 2 ELSE 0,
     has_data |-> kind.has_data,
     data |-> IF kind.has_data THEN <<7>> ELSE << >>,
     annotations |-> kind.annotations]

InitRun ==
    \E i \in BOOLEAN, kinds \in SeqsUpTo(RunItemKinds, MaxItems) :
        Start(i, FALSE, <<NameA>>,
              [k \in 1..Len(kinds) |-> RunItem(k, kinds[k])])

\* the settings: one item with image info, with or without pixel data, by
\* every combination of save_images and save_masks
InitSettings ==
    \E i \in BOOLEAN, m \in BOOLEAN, d \in BOOLEAN,
       anns \in {<< >>,
                 <<Ann("polygon", None, Some(0), 1, UnitBox)>>,
                 <<Ann(BBOX, None, Some(0), 1, UnitBox)>>,
                 <<Ann(MASK, None, Some(0), 1, UnitBox),
                   Ann(BBOX, None, None, 1, UnitBox)>>} :
        Start(i, m, <<NameA>>,
              <<[SizedItem(1, 2, anns) EXCEPT
                    !.has_data = d, !.data = IF d THEN <<7>> ELSE << >>]>>)

Init ==
    InitGroup \/ InitLeader \/ InitBox \/ InitLabel \/ InitRun \/ InitSettings

Spec == Init /\ [][Next]_vars

----------------------------------------------------------------------------
(* What the properties below speak of *)

\* an item has been handed to _make_tf_example
HasLast == pc = "error" \/ (pc \in {"items", "subset", "done"} /\ item_idx > 1)

\* that item: the one that raised, or the one written last
LastItem == IF pc = "error" THEN subset[item_idx] ELSE subset[item_idx - 1]

\* _find_instances has run on LastItem: ann_groups and instances are its
Grouped == HasLast /\ LastItem.has_image

\* the record of LastItem has been written
Written == HasLast /\ pc # "error"

\* the records written for the current subset
Records == files[AnnoPath(subset_name)]

LastRecord == Records[item_idx - 1]

Members(group) == {group[j] : j \in 1..Len(group)}

\* the positions of the bbox and mask annotations of an item
InstanceAnns(item) ==
    {i \in 1..Len(item.annotations) : item.annotations[i].type \in {BBOX, MASK}}

\* the instances that hold annotation i
Holders(i) == {k \in 1..Len(ann_groups) : i \in Members(ann_groups[k])}

SetMin(S) == CHOOSE m \in S : \A x \in S : m <= x

SetMax(S) == CHOOSE m \in S : \A x \in S : m >= x

ImageKeys ==
    {"image/source_id", "image/filename", "image/height", "image/width"}

ObjectKeys ==
    {"image/object/bbox/xmin", "image/object/bbox/xmax",
     "image/object/bbox/ymin", "image/object/bbox/ymax",
     "image/object/class/text", "image/object/class/label",
     "image/object/mask"}

----------------------------------------------------------------------------
(* C1 *)

\* C1 (as claimed): for every non-empty group id carried by a bbox or mask
\* annotation of the item, exactly one instance holds annotations of that
\* group id, wherever they sit in the list.
C1_OneInstancePerGroupId ==
    Grouped =>
        LET anns == LastItem.annotations
            ids  == {anns[i].group : i \in InstanceAnns(LastItem)}
        IN \A g \in ids :
            GroupTruthy(g) =>
                Cardinality({k \in 1..Len(ann_groups) :
                    \E i \in Members(ann_groups[k]) : anns[i].group = g}) = 1

----------------------------------------------------------------------------
(* C2 *)

\* C2 (as claimed): the leader of every instance is a member of largest
\* area, and among the members of largest area it is the first in the
\* item's original annotation order.
C2_LeaderFirstInOriginalOrder ==
    Grouped =>
        \A k \in 1..Len(instances) :
            LET anns   == LastItem.annotations
                leader == instances[k][1]
            IN /\ leader \in Members(ann_groups[k])
               /\ \A j \in Members(ann_groups[k]) :
                    /\ anns[j].area <= anns[leader].area
                    /\ anns[j].area = anns[leader].area => leader <= j

\* C2 (amended): the leader of every instance is a member of largest area,
\* and among the members of largest area it is the first in the order
\* "the group's bounding boxes in annotation order, then its masks in
\* annotation order": a box wins a tie against a mask that precedes it.
C2_LeaderFirstBoxesThenMasks ==
    Grouped =>
        \A k \in 1..Len(instances) :
            LET anns   == LastItem.annotations
                leader == instances[k][1]
            IN /\ leader \in Members(ann_groups[k])
               /\ \A j \in Members(ann_groups[k]) :
                    /\ anns[j].area <= anns[leader].area
                    /\ anns[j].area = anns[leader].area =>
                        \/ anns[leader].type = BBOX /\ anns[j].type = MASK
                        \/ anns[leader].type = anns[j].type /\ leader <= j

\* a group where a mask precedes a box of the same, largest, area and a
\* smaller member comes first: the box leads
C2_Witness ==
    /\ Grouped
    /\ pc = "done"
    /\ \E k \in 1..Len(instances) :
        LET anns   == LastItem.annotations
            leader == instances[k][1]
        IN /\ anns[leader].type = BBOX
           /\ \E j \in Members(ann_groups[k]) :
                /\ j < leader
                /\ anns[j].type = MASK
                /\ anns[j].area = anns[leader].area
           /\ \E j \in Members(ann_groups[k]) :
                anns[j].area < anns[leader].area

----------------------------------------------------------------------------
(* C3 *)

\* C3: every bbox or mask annotation with a falsy group id (None or 0) is
\* the only member of exactly one instance; the number of instances is the
\* number of such annotations plus the number of instances made of grouped
\* annotations; no instance holds an annotation of another kind.
C3_UngroupedAreSingletons ==
    Grouped =>
        LET anns      == LastItem.annotations
            ungrouped == {i \in InstanceAnns(LastItem) :
                            ~GroupTruthy(anns[i].group)}
            grouped   == {k \in 1..Len(ann_groups) :
                            \A i \in Members(ann_groups[k]) :
                                GroupTruthy(anns[i].group)}
        IN /\ \A i \in ungrouped :
                /\ Cardinality(Holders(i)) = 1
                /\ \A k \in Holders(i) : ann_groups[k] = <<i>>
           /\ Len(ann_groups) = Cardinality(ungrouped) + Cardinality(grouped)
           /\ \A k \in 1..Len(ann_groups) :
                /\ ann_groups[k] # << >>
                /\ Members(ann_groups[k]) \subseteq InstanceAnns(LastItem)
           /\ Len(instances) = Len(ann_groups)

\* two adjacent ungrouped annotations, one with group None and one with
\* group 0, next to an annotation of another kind: two instances
C3_Witness ==
    /\ Grouped
    /\ pc = "done"
    /\ Len(ann_groups) = 2
    /\ Len(LastItem.annotations) = 3
    /\ \E i \in 1..2 :
        LET anns == LastItem.annotations
        IN /\ {i, i + 1} \subseteq InstanceAnns(LastItem)
           /\ {anns[i].group, anns[i + 1].group} = {None, Some(0)}

----------------------------------------------------------------------------
(* C4 *)

\* C4: an item without image info can only make the run abort, and once
\* the run has aborted on it the error names the item's id, the subset's
\* record stream holds exactly the records of the items before it, in
\* order, and nothing more is ever written (no step remains).
C4_AbortKeepsPrecedingRecords ==
    /\ (pc = "items" /\ item_idx <= Len(subset)
            /\ ~subset[item_idx].has_image) =>
        (ENABLED RaiseItem /\ ~ENABLED WriteItem)
    /\ (pc = "error" /\ error[1].type = "Exception") =>
        /\ ~subset[item_idx].has_image
        /\ error[1].item = subset[item_idx].id
        /\ Len(Records) = item_idx - 1
        /\ \A k \in 1..(item_idx - 1) :
            /\ subset[k].has_image
            /\ Records[k]["image/source_id"].value = <<subset[k].id>>
            /\ Records[k] = make_tf_example(subset[k], extractor.categories,
                                label_ids, save_images, save_masks).features
        /\ ~ENABLED Next

\* the run aborted on the second item of a subset after writing the first
C4_Witness ==
    /\ pc = "error"
    /\ error[1].type = "Exception"
    /\ item_idx = 2
    /\ Len(subset) = 2
    /\ Len(Records) = 1

----------------------------------------------------------------------------
(* C5 *)

\* C5: the record of an item with image info and no bbox or mask
\* annotation has none of the image/object/... keys and has
\* image/source_id, image/filename, image/height and image/width, under
\* every setting of save_images and save_masks.
C5_ZeroInstanceRecord ==
    (Written /\ InstanceAnns(LastItem) = {}) =>
        /\ DOMAIN LastRecord \cap ObjectKeys = {}
        /\ \A key \in DOMAIN LastRecord :
            key \in ImageKeys \cup {"image/encoded", "image/format"}
        /\ ImageKeys \subseteq DOMAIN LastRecord
        /\ LastRecord["image/source_id"].value = <<LastItem.id>>
        /\ LastRecord["image/filename"].value = <<LastItem.id \o IMAGE_EXT>>
        /\ LastRecord["image/height"].value = <<LastItem.height>>
        /\ LastRecord["image/width"].value = <<LastItem.width>>

\* such a record, written with images and masks both enabled for an item
\* whose only annotation is of another kind
C5_Witness ==
    /\ Written
    /\ save_images
    /\ save_masks
    /\ LastItem.annotations # << >>
    /\ InstanceAnns(LastItem) = {}
    /\ LastItem.height # LastItem.width

----------------------------------------------------------------------------
(* C6 *)

\* the class id the catalog gives a label reference: 1 + the position of
\* the referenced name, 0 for no label or a reference outside the catalog
CatalogId(label_id) ==
    IF label_id = None \/ ~IndexInRange(extractor.categories, label_id[1])
    THEN 0
    ELSE 1 + SetMin({n \in 0..(Len(extractor.categories) - 1) :
                extractor.categories[n + 1] =
                    PyIndex(extractor.categories, label_id[1])})

\* C6 (as claimed): label encoding never raises, and every written record
\* carries, per instance, the class id the catalog gives the leader's
\* label reference (0 for an absent or out-of-catalog label), with the
\* empty class text for an absent label.
C6_LabelEncodingNeverRaises ==
    /\ pc = "error" => error[1].type # "IndexError"
    /\ (Written /\ instances # << >>) =>
        \A k \in 1..Len(instances) :
            LET label_id == LastItem.annotations[instances[k][1]].label
            IN /\ LastRecord["image/object/class/label"].value[k]
                    = CatalogId(label_id)
               /\ label_id = None =>
                    LastRecord["image/object/class/text"].value[k] = << >>

----------------------------------------------------------------------------
(* C7 *)

\* every bbox or mask rectangle of the item lies inside its image
AllInsideImage(item) ==
    /\ item.width > 0
    /\ item.height > 0
    /\ \A i \in InstanceAnns(item) :
        LET b == item.annotations[i].bbox
        IN /\ 0 <= b[1] /\ b[1] + b[3] <= item.width
           /\ 0 <= b[2] /\ b[2] + b[4] <= item.height

\* C7: when every bbox or mask rectangle of the item lies inside the image,
\* every instance's xmin, xmax are quotients by the image width, its ymin,
\* ymax quotients by the image height, and 0 <= xmin <= xmax <= 1 and
\* 0 <= ymin <= ymax <= 1.
C7_NormalizedInUnitRange ==
    (Written /\ AllInsideImage(LastItem)) =>
        \A k \in 1..Len(instances) :
            LET xmin == LastRecord["image/object/bbox/xmin"].value[k]
                xmax == LastRecord["image/object/bbox/xmax"].value[k]
                ymin == LastRecord["image/object/bbox/ymin"].value[k]
                ymax == LastRecord["image/object/bbox/ymax"].value[k]
            IN /\ xmin[2] = LastItem.width /\ xmax[2] = LastItem.width
               /\ ymin[2] = LastItem.height /\ ymax[2] = LastItem.height
               /\ 0 <= xmin[1] /\ FracLeq(xmin, xmax) /\ xmax[1] <= xmax[2]
               /\ 0 <= ymin[1] /\ FracLeq(ymin, ymax) /\ ymax[1] <= ymax[2]

\* an instance of two annotations in an image that is not square, reaching
\* the right border of the image without starting at its left border
C7_Witness ==
    /\ Written
    /\ AllInsideImage(LastItem)
    /\ LastItem.width # LastItem.height
    /\ Len(instances) = 1
    /\ Len(ann_groups[1]) = 2
    /\ LastRecord["image/object/bbox/xmin"].value[1] = <<1, 2>>
    /\ LastRecord["image/object/bbox/xmax"].value[1] = <<2, 2>>

----------------------------------------------------------------------------
(* C8 *)

\* the union of the rectangles of the annotations S of the last item
UnionBox(S) ==
    LET b(i) == LastItem.annotations[i].bbox
        x0 == SetMin({b(i)[1] : i \in S})
        y0 == SetMin({b(i)[2] : i \in S})
        x1 == SetMax({b(i)[1] + b(i)[3] : i \in S})
        y1 == SetMax({b(i)[2] + b(i)[4] : i \in S})
    IN <<x0, y0, x1 - x0, y1 - y0>>

\* C8 (as claimed): an instance whose group has no bounding-box annotation
\* has the bbox (0, 0, 0, 0), even if the group has masks; any other
\* instance has the bbox (x0, y0, x1 - x0, y1 - y0) of the union of its
\* group's rectangles.
C8_NoBoxGroupYieldsZeroBox ==
    Grouped =>
        \A k \in 1..Len(instances) :
            LET anns  == LastItem.annotations
                boxes == {i \in Members(ann_groups[k]) : anns[i].type = BBOX}
            IN IF boxes = {} THEN instances[k][3] = <<0, 0, 0, 0>>
               ELSE instances[k][3] = UnionBox(Members(ann_groups[k]))

\* C8 (amended): every instance has the bbox (x0, y0, x1 - x0, y1 - y0) with
\* x0, y0 the least left and top edge and x1, y1 the greatest right and
\* bottom edge over all the bbox and mask annotations of its group, masks
\* contributing their own rectangle: a group of masks only yields the union
\* of its masks' rectangles.  (0, 0, 0, 0) is what _compute_bbox returns
\* for an empty annotation list, and no group is empty.
C8_BoxIsUnionOfBoxesAndMasks ==
    /\ compute_bbox(<< >>, << >>) = <<0, 0, 0, 0>>
    /\ Grouped =>
        \A k \in 1..Len(instances) :
            /\ Members(ann_groups[k]) # {}
            /\ instances[k][3] = UnionBox(Members(ann_groups[k]))

\* a group of two masks and no box whose union is larger than either mask
C8_Witness ==
    /\ Grouped
    /\ pc = "done"
    /\ Len(instances) = 1
    /\ Len(ann_groups[1]) = 2
    /\ \A i \in Members(ann_groups[1]) :
        /\ LastItem.annotations[i].type = MASK
        /\ LastItem.annotations[i].bbox # instances[1][3]
    /\ instances[1][3] = <<0, 0, 2, 2>>

----------------------------------------------------------------------------
(* C9 *)

\* C9 (as claimed): with image saving enabled, an item that has image size
\* info and no pixel data raises no error: its record is written, with
\* empty image/encoded and image/format, its height and width and its
\* instance features, and the run goes on to the next item.
C9_MissingPixelDataIsNotFatal ==
    (HasLast /\ save_images /\ LastItem.has_image /\ ~LastItem.has_data) =>
        /\ pc # "error"
        /\ LastRecord["image/encoded"].value = << << >> >>
        /\ LastRecord["image/format"].value = << << >> >>
        /\ LastRecord["image/height"].value = <<LastItem.height>>
        /\ LastRecord["image/width"].value = <<LastItem.width>>
        /\ instances # << >> =>
            Len(LastRecord["image/object/class/label"].value) = Len(instances)

----------------------------------------------------------------------------
(* C10 *)

\* C10: in the record of an item with n >= 1 instances, xmin, xmax, ymin,
\* ymax, class/text and class/label have n entries each, entry k being that
\* of instance k, the instances following the order in which their groups
\* start in the annotation list; image/object/mask is present exactly when
\* save_masks is set, and then has n entries, the empty buffer exactly for
\* the instances whose group has no mask.
C10_ParallelInstanceLists ==
    (Written /\ instances # << >>) =>
        LET n    == Len(instances)
            anns == LastItem.annotations
            val(key) == LastRecord[key].value
        IN /\ Len(ann_groups) = n
           /\ \A key \in ObjectKeys \ {"image/object/mask"} :
                key \in DOMAIN LastRecord /\ Len(val(key)) = n
           /\ \A k \in 1..n :
                LET leader == instances[k][1]
                    box    == instances[k][3]
                IN /\ leader \in Members(ann_groups[k])
                   /\ val("image/object/class/label")[k] =
                        DictGet(label_ids,
                            get_label(extractor.categories, anns[leader].label), 0)
                   /\ val("image/object/class/text")[k] = make_printable(
                        get_label(extractor.categories, anns[leader].label))
                   /\ val("image/object/bbox/xmin")[k] = <<box[1], LastItem.width>>
                   /\ val("image/object/bbox/xmax")[k] =
                        <<box[1] + box[3], LastItem.width>>
                   /\ val("image/object/bbox/ymin")[k] = <<box[2], LastItem.height>>
                   /\ val("image/object/bbox/ymax")[k] =
                        <<box[2] + box[4], LastItem.height>>
           /\ \A k \in 1..(n - 1) : ann_groups[k][1] < ann_groups[k + 1][1]
           /\ ("image/object/mask" \in DOMAIN LastRecord) <=> save_masks
           /\ save_masks =>
                /\ Len(val("image/object/mask")) = n
                /\ \A k \in 1..n :
                    (val("image/object/mask")[k] = << >>) <=>
                        (\A i \in Members(ann_groups[k]) : anns[i].type # MASK)

\* masks are saved and the item has an instance with a mask after one
\* without
C10_Witness ==
    /\ Written
    /\ save_masks
    /\ Len(instances) >= 2
    /\ LastRecord["image/object/mask"].value[1] = << >>
    /\ LastRecord["image/object/mask"].value[2] # << >>

============================================================================
